---------------------------- MODULE Spec2Model ----------------------------
(***************************************************************************)
(* A model of Preocts/secretbox: the SecretBox / LoadEnv aggregators, the  *)
(* EnvFileLoader .env parser and the sources they read (process            *)
(* environment, .env file, AWS secrets manager).                           *)
(*                                                                         *)
(* Python strings are sequences of one-character strings.  Python dicts    *)
(* are sequences of [k, v] records in insertion order with unique keys.    *)
(* Python values are tagged records [t, v]: t is the Python type name and  *)
(* v the value's text.                                                     *)
(***************************************************************************)
EXTENDS Integers, Sequences, FiniteSets, TLC

VARIABLES
    input,      \* the string handed to an EnvFileLoader method (SpecParse)
    efl,        \* EnvFileLoader._loaded_values
    ret,        \* the last call: its name, arguments, exception and return value
    environ,    \* os.environ
    file,       \* the file named by self.filename: NoFile or its text
    boto3,      \* whether the boto3 import succeeded
    aws,        \* what the secrets manager answers to get_secret_value
    box,        \* the SecretBox or LoadEnv instance
    held,       \* the object the caller got from reading box.loaded_values
    pre,        \* os.environ as it was when the last call began
    envl,       \* EnvironLoader._loaded_values
    awsl,       \* the AWSSecretLoader or AWSParameterStoreLoader instance
    ssm,        \* what the parameter store answers, request after request
    awsb,       \* an AWSLoader instance and the context it has entered
    root_level  \* logging.getLogger().level

vars ==
    <<input, efl, ret, environ, file, boto3, aws, box, held, pre, envl, awsl, ssm,
      awsb, root_level>>

base == <<awsb, root_level>>

loaders == <<envl, awsl, ssm, base>>

world == <<environ, file, boto3, aws, box, held, pre, loaders>>

---------------------------------------------------------------------------
(* Python values *)

Str(s) == [t |-> "str", v |-> s]

PyNone == [t |-> "NoneType", v |-> <<>>]

PyBool(b) == [t |-> "bool", v |-> IF b THEN <<"T">> ELSE <<"F">>]

\* the default of a parameter the caller did not pass
NoDefault == [t |-> "missing", v |-> <<>>]

NoCall ==
    [op |-> "none", key |-> <<>>, default |-> NoDefault, exc |-> "none",
     val |-> PyNone, args |-> <<>>]

Returned(op, val) == [NoCall EXCEPT !.op = op, !.val = val]

Raised(op, exc) == [NoCall EXCEPT !.op = op, !.exc = exc]

---------------------------------------------------------------------------
(* Python str methods *)

\* str.isspace() of one character, for the characters the model draws
IsSpace(c) == c \in {" ", "\t", "\n", "\r"}

RECURSIVE lstrip(_)
lstrip(s) == IF s # <<>> /\ IsSpace(Head(s)) THEN lstrip(Tail(s)) ELSE s

RECURSIVE rstrip(_)
rstrip(s) ==
    IF s # <<>> /\ IsSpace(s[Len(s)]) THEN rstrip(SubSeq(s, 1, Len(s) - 1)) ELSE s

strip(s) == rstrip(lstrip(s))

startswith(s, p) == Len(s) >= Len(p) /\ SubSeq(s, 1, Len(p)) = p

\* str.find(c): the first index of character c in s, 0 when there is none
find(s, c) ==
    IF \E i \in 1..Len(s) : s[i] = c
    THEN CHOOSE i \in 1..Len(s) : s[i] = c /\ \A j \in 1..(i - 1) : s[j] # c
    ELSE 0

\* a slip split1 could have: str.rsplit(c, 1), cut at the last c
rsplit1(s, c) ==
    IF \E i \in 1..Len(s) : s[i] = c
    THEN LET i == CHOOSE i \in 1..Len(s) :
                      s[i] = c /\ \A j \in (i + 1)..Len(s) : s[j] # c
         IN  <<SubSeq(s, 1, i - 1), SubSeq(s, i + 1, Len(s))>>
    ELSE <<s>>

\* str.split(c, 1): one or two parts, cut at the first c
split1(s, c) ==
    LET i == find(s, c)
    IN  IF i = 0 THEN <<s>>
        ELSE <<SubSeq(s, 1, i - 1), SubSeq(s, i + 1, Len(s))>>

\* str.split(c): every part between occurrences of c
RECURSIVE split(_, _)
split(s, c) ==
    LET i == find(s, c)
    IN  IF i = 0 THEN <<s>>
        ELSE <<SubSeq(s, 1, i - 1)>> \o split(SubSeq(s, i + 1, Len(s)), c)

\* str.lower() of one character, for the letters the model draws
lower(c) ==
    CASE c = "E" -> "e" [] c = "X" -> "x" [] c = "P" -> "p"
      [] c = "O" -> "o" [] c = "R" -> "r" [] c = "T" -> "t"
      [] c = "U" -> "u" [] c = "F" -> "f"
      [] OTHER -> c

---------------------------------------------------------------------------
(* Python dict, insertion ordered *)

EmptyDict == <<>>

HasKey(d, k) == \E i \in 1..Len(d) : d[i].k = k

DictGet(d, k) == d[CHOOSE i \in 1..Len(d) : d[i].k = k].v

Keys(d) == {d[i].k : i \in 1..Len(d)}

\* d[k] = v: an existing key keeps its place, a new key goes last
DictSet(d, k, v) ==
    IF HasKey(d, k)
    THEN [i \in 1..Len(d) |-> IF d[i].k = k THEN [k |-> k, v |-> v] ELSE d[i]]
    ELSE Append(d, [k |-> k, v |-> v])

\* d.update(e)
RECURSIVE DictUpdate(_, _)
DictUpdate(d, e) ==
    IF e = <<>> THEN d
    ELSE DictUpdate(DictSet(d, Head(e).k, Head(e).v), Tail(e))

---------------------------------------------------------------------------
(* EnvFileLoader *)

Quotes == {"\"", "'"}

NoMatch == [matched |-> FALSE, group2 |-> <<>>]

\* RE_LTQUOTES.match(in_): the first alternative ([\"'])(.*)\1$ needs a
\* quote, a run without newline, the same quote, and the end of the string
\* (or a final newline); the second alternative ^(.*)$ has no group 2.
RE_LTQUOTES_match(s) ==
    LET n == Len(s)
        e == IF n >= 1 /\ s[n] = "\n" THEN n - 1 ELSE n
        inner(j) == SubSeq(s, 2, j - 1)
        alt1(j) == /\ j >= 2
                   /\ s[1] \in Quotes
                   /\ s[j] = s[1]
                   /\ \A i \in 2..(j - 1) : s[i] # "\n"
        alt2 == \A i \in 1..e : s[i] # "\n"
    IN  IF alt1(n) THEN [matched |-> TRUE, group2 |-> inner(n)]
        ELSE IF alt1(e) THEN [matched |-> TRUE, group2 |-> inner(e)]
        ELSE IF alt2 THEN [matched |-> TRUE, group2 |-> <<>>]
        ELSE NoMatch

\* a slip remove_lt_quotes could have: a leading quote taken off unmatched
remove_lt_quotes_leading_only(s) ==
    IF s # <<>> /\ s[1] \in Quotes THEN Tail(s) ELSE s

\* return m.group(2) if m and m.group(2) else in_
remove_lt_quotes(s) ==
    LET m == RE_LTQUOTES_match(s)
    IN  IF m.matched /\ m.group2 # <<>> THEN m.group2 ELSE s

ExportWord == <<"e", "x", "p", "o", "r", "t">>

\* a slip strip_export could have: no whitespace asked for after the word
strip_export_any_follower(s) ==
    LET t == lstrip(s)
    IN  IF Len(t) >= 6 /\ [i \in 1..6 |-> lower(t[i])] = ExportWord
        THEN SubSeq(t, 7, Len(t))
        ELSE s

\* re.sub(r"^\s*?export\s", "", in_, flags=re.IGNORECASE)
strip_export(s) ==
    LET t == lstrip(s)
    IN  IF /\ Len(t) >= 7
           /\ [i \in 1..6 |-> lower(t[i])] = ExportWord
           /\ IsSpace(t[7])
        THEN SubSeq(t, 8, Len(t))
        ELSE s

\* a slip SkipsLine could have: no test for a comment
SkipsLine_without_comment(line) ==
    \/ line = <<>>
    \/ Len(split1(line, "=")) # 2

\* the test of parse_env_file that skips a line
SkipsLine(line) ==
    \/ line = <<>>
    \/ startswith(strip(line), <<"#">>)
    \/ Len(split1(line, "=")) # 2

\* one retained line of parse_env_file: the pair it stores
ParsedPair(line) ==
    LET parts == split1(line, "=")
    IN  [k |-> strip(strip_export(parts[1])),
         v |-> Str(remove_lt_quotes(strip(parts[2])))]

RECURSIVE ParseLines(_, _)
ParseLines(lines, d) ==
    IF lines = <<>> THEN d
    ELSE LET line == Head(lines)
         IN  IF SkipsLine(line) THEN ParseLines(Tail(lines), d)
             ELSE LET p == ParsedPair(line)
                  IN  ParseLines(Tail(lines), DictSet(d, p.k, p.v))

\* EnvFileLoader.parse_env_file(input_file) on loaded values d
parse_env_file(text, d) == ParseLines(split(text, "\n"), d)

---------------------------------------------------------------------------
(* The strings the EnvFileLoader methods are applied to *)

MaxTokens == 4

Tokens ==
    { <<"e", "x", "p", "o", "r", "t">>, <<"e", "X", "p", "o", "r", "t">>,
      <<" ">>, <<"=">>, <<"\"">>, <<"'">>, <<"#">>, <<"A">>, <<"\n">> }

RECURSIVE TokenStrs(_)
TokenStrs(n) ==
    IF n = 0 THEN {<<>>}
    ELSE LET shorter == TokenStrs(n - 1)
         IN  shorter \cup {s \o t : s \in shorter, t \in Tokens}

\* longer inputs, after the lines of tests/conftest.py ENV_FILE_CONTENTS
FixtureStrs ==
    { <<"A", "=", "A", "=", "A">>,
      <<"A", " ", " ", "=", " ", " ", "A">>,
      <<"A", "=", "\"", "A", " ", "A", "\"">>,
      <<"A", " ", "=", " ", "'", " ", "\"", "A", "\"", " ", "A", "'">>,
      <<" ", "A", " ", "=", " ", "'", "A", "'">>,
      <<"e", "x", "p", "o", "r", "t", " ", "A", " ", "=", " ",
        "\"", "'", "A", "'", "\"">>,
      <<" ", "e", "X", "p", "o", "r", "t", " ", "A", "=", "A", "=", "A">>,
      <<"\"", "'", "A", "'", "\"">>,
      <<"'", "\"", "A", " ", "\"", "'">>,
      <<"e", "x", "p", "o", "r", "t", " ", "A", "=", "A", "=", "A">>,
      <<"e", "x", "p", "o", "r", "t", " ", "A", "=",
        "e", "x", "p", "o", "r", "t", " ", "A">>,
      <<"A", "=", "A", "\n", "#", "A", "=", "\n", "A", " ", "A", "\n",
        "\n", "B", "=", "=">> }

Inputs == TokenStrs(MaxTokens) \cup FixtureStrs

---------------------------------------------------------------------------
(* json.loads of a SecretString *)

JString(s) == [j |-> "string", text |-> s]

JNumber(s) == [j |-> "number", text |-> s]

JNull == [j |-> "null", text |-> <<>>]

\* the Python value json.loads builds for one JSON value
json_value(jv) ==
    CASE jv.j = "string" -> Str(jv.text)
      [] jv.j = "number" -> [t |-> "int", v |-> jv.text]
      [] jv.j = "null" -> PyNone

\* json.loads(text) of a JSON object: its members in order, a repeated name
\* keeping its last value
RECURSIVE json_object(_)
json_object(members) ==
    IF members = <<>> THEN EmptyDict
    ELSE LET n == Len(members)
         IN  DictSet(json_object(SubSeq(members, 1, n - 1)),
                     members[n].k, json_value(members[n].v))

---------------------------------------------------------------------------
(* SecretBox and LoadEnv *)

NoFile == [exists |-> FALSE, text |-> <<>>]

FileOf(text) == [exists |-> TRUE, text |-> text]

endswith(s, c) == s # <<>> /\ s[Len(s)] = c

\* str.strip(c) for one character c
RECURSIVE strip_char(_, _)
strip_char(s, c) ==
    IF s # <<>> /\ Head(s) = c THEN strip_char(Tail(s), c)
    ELSE IF endswith(s, c) THEN strip_char(SubSeq(s, 1, Len(s) - 1), c)
    ELSE s

remove_lt_dbl_quotes(s) ==
    IF startswith(s, <<"\"">>) /\ endswith(s, "\"") THEN strip_char(s, "\"") ELSE s

remove_lt_sgl_quotes(s) ==
    IF startswith(s, <<"'">>) /\ endswith(s, "'") THEN strip_char(s, "'") ELSE s

RECURSIVE BoxParseLines(_, _)
BoxParseLines(lines, d) ==
    IF lines = <<>> THEN d
    ELSE LET line == Head(lines)
             parts == split1(line, "=")
         IN  IF SkipsLine(line) THEN BoxParseLines(Tail(lines), d)
             ELSE BoxParseLines(
                      Tail(lines),
                      DictSet(d, strip(parts[1]),
                              Str(remove_lt_sgl_quotes(
                                      remove_lt_dbl_quotes(strip(parts[2]))))))

\* SecretBox.__parse_env_file(input_file) on loaded values d
box_parse_env_file(text, d) == BoxParseLines(split(text, "\n"), d)

\* a slip load_env_vars could have: loaded_values = dict(os.environ)
load_env_vars_replacing(values, env) == env

\* load_env_vars: for key, value in os.environ.items(): loaded_values[key] = value
load_env_vars(values, env) == DictUpdate(values, env)

\* load_env_file: the loaded values and the returned flag
load_env_file(values, f) ==
    IF f.exists
    THEN [values |-> box_parse_env_file(f.text, values), val |-> PyBool(TRUE)]
    ELSE [values |-> values, val |-> PyBool(FALSE)]

\* load_aws_store with __connect_aws_client: the loaded values, the exception
\* that leaves the method and the returned flag
load_aws_store(b, hasBoto, answer) ==
    LET quiet(flag) == [values |-> b.loaded_values, exc |-> "none", val |-> PyBool(flag)]
        raises(e) == [values |-> b.loaded_values, exc |-> e, val |-> PyNone]
        secrets == json_object(answer.members)
    IN  IF b.aws_region = PyNone THEN quiet(FALSE)
        ELSE IF ~hasBoto THEN raises("NotImplementedError")
        ELSE IF answer.kind = "InvalidRegionError" \/ b.aws_sstore = PyNone
             THEN quiet(FALSE)
        ELSE IF answer.kind \in {"NoCredentialsError", "ClientError"}
             THEN quiet(FALSE)
        ELSE IF answer.kind = "NotJSON" THEN raises("JSONDecodeError")
        ELSE [values |-> DictUpdate(b.loaded_values, secrets),
              exc |-> "none",
              val |-> PyBool(secrets # EmptyDict)]

\* os.environ[key] = value: the exception it raises, "none" when it stores
environ_setitem_exc(key, value) ==
    IF value.t # "str" THEN "TypeError"
    ELSE IF key = <<>> THEN "OSError"
    ELSE IF \E i \in 1..Len(key) : key[i] = "=" THEN "ValueError"
    ELSE "none"

\* a slip push_to_environment could have: a variable that is set is kept
RECURSIVE push_keeping_existing(_, _)
push_keeping_existing(items, env) ==
    IF items = <<>> THEN [environ |-> env, exc |-> "none"]
    ELSE LET e == environ_setitem_exc(Head(items).k, Head(items).v)
         IN  IF e # "none" THEN [environ |-> env, exc |-> e]
             ELSE push_keeping_existing(
                      Tail(items),
                      IF HasKey(env, Head(items).k) THEN env
                      ELSE DictSet(env, Head(items).k, Head(items).v))

\* push_to_environment: the items in order, up to the first that raises
RECURSIVE push_to_environment(_, _)
push_to_environment(items, env) ==
    IF items = <<>> THEN [environ |-> env, exc |-> "none"]
    ELSE LET e == environ_setitem_exc(Head(items).k, Head(items).v)
         IN  IF e # "none" THEN [environ |-> env, exc |-> e]
             ELSE push_to_environment(
                      Tail(items), DictSet(env, Head(items).k, Head(items).v))

\* whether load() goes on to load_aws_store
load_uses_aws(b, hasBoto) ==
    IF b.cls = "SecretBox"
    THEN hasBoto /\ b.aws_region \notin {PyNone, Str(<<>>)}
                 /\ b.aws_sstore \notin {PyNone, Str(<<>>)}
    ELSE hasBoto

\* a slip load() could have: the file before the environment
load_file_first(b, env, f, hasBoto, answer) ==
    LET v1 == load_env_file(b.loaded_values, f).values
        v2 == load_env_vars(v1, env)
        b2 == [b EXCEPT !.loaded_values = v2]
        a == IF load_uses_aws(b, hasBoto)
             THEN load_aws_store(b2, hasBoto, answer)
             ELSE [values |-> v2, exc |-> "none", val |-> PyNone]
        p == push_to_environment(a.values, env)
    IN  IF a.exc # "none"
        THEN [values |-> a.values, environ |-> env, exc |-> a.exc]
        ELSE [values |-> a.values, environ |-> p.environ, exc |-> p.exc]

\* a slip load() could have: the final push_to_environment is left out
load_without_push(b, env, f, hasBoto, answer) ==
    LET v1 == load_env_vars(b.loaded_values, env)
        v2 == load_env_file(v1, f).values
        b2 == [b EXCEPT !.loaded_values = v2]
        a == IF load_uses_aws(b, hasBoto)
             THEN load_aws_store(b2, hasBoto, answer)
             ELSE [values |-> v2, exc |-> "none", val |-> PyNone]
    IN  [values |-> a.values, environ |-> env, exc |-> a.exc]

\* load(): environment, then file, then AWS, then the push
load(b, env, f, hasBoto, answer) ==
    LET v1 == load_env_vars(b.loaded_values, env)
        v2 == load_env_file(v1, f).values
        b2 == [b EXCEPT !.loaded_values = v2]
        a == IF load_uses_aws(b, hasBoto)
             THEN load_aws_store(b2, hasBoto, answer)
             ELSE [values |-> v2, exc |-> "none", val |-> PyNone]
        p == push_to_environment(a.values, env)
    IN  IF a.exc # "none"
        THEN [values |-> a.values, environ |-> env, exc |-> a.exc]
        ELSE [values |-> a.values, environ |-> p.environ, exc |-> p.exc]

\* get(key, default): SecretBox defaults to "", LoadEnv has no default
get(b, key, default) ==
    IF HasKey(b.loaded_values, key) THEN DictGet(b.loaded_values, key)
    ELSE IF default = NoDefault THEN Str(<<>>)
    ELSE default

---------------------------------------------------------------------------
(* The loader classes: EnvFileLoader, EnvironLoader, AWSSecretLoader and   *)
(* AWSParameterStoreLoader                                                  *)

\* an attribute that __init__ did not set
Unset == [t |-> "unset", v |-> <<>>]

\* bool(v) of a str or None
Truthy(v) == v.t # "NoneType" /\ v.v # <<>>

\* a or b
PyOr(a, b) == IF Truthy(a) THEN a ELSE b

\* os.getenv(key, default)
getenv(env, key, default) == IF HasKey(env, key) THEN DictGet(env, key) ELSE default

AWS_SSTORE_NAME ==
    <<"A", "W", "S", "_", "S", "S", "T", "O", "R", "E", "_", "N", "A", "M", "E">>

AWS_REGION_NAME ==
    <<"A", "W", "S", "_", "R", "E", "G", "I", "O", "N", "_", "N", "A", "M", "E">>

AWS_REGION == <<"A", "W", "S", "_", "R", "E", "G", "I", "O", "N">>

\* the caller passed no keyword arguments
NoKwargs == [aws_sstore_name |-> PyNone, aws_region_name |-> PyNone]

\* a slip _load_values could have: a missing file empties the loaded values
EnvFileLoader_load_values_reset(d, f) ==
    IF f.exists
    THEN [values |-> parse_env_file(f.text, d), val |-> PyBool(TRUE)]
    ELSE [values |-> EmptyDict, val |-> PyBool(FALSE)]

\* EnvFileLoader._load_values: the loaded values and the returned flag
EnvFileLoader_load_values(d, f) ==
    IF f.exists
    THEN [values |-> parse_env_file(f.text, d), val |-> PyBool(TRUE)]
    ELSE [values |-> d, val |-> PyBool(FALSE)]

\* EnvFileLoader.run: _load_values, then os.environ[key] = value for every
\* loaded value
EnvFileLoader_run(d, f, env) ==
    LET r == EnvFileLoader_load_values(d, f)
        p == push_to_environment(r.values, env)
    IN  [values |-> r.values, environ |-> p.environ, exc |-> p.exc,
         val |-> IF p.exc = "none" THEN r.val ELSE PyNone]

\* EnvironLoader._load_values: self._loaded_values.update(os.environ)
EnvironLoader_load_values(d, env) ==
    [values |-> DictUpdate(d, env), val |-> PyBool(TRUE)]

\* the subclasses' __init__(aws_sstore_name, aws_region_name); requests holds
\* the NextToken argument of every get_parameters_by_path request the last
\* _load_values made
AwsLoader(cls, sstore, region) ==
    [cls |-> cls, aws_sstore |-> sstore, aws_region |-> region,
     loaded_values |-> EmptyDict, hide_boto_debug |-> Unset, requests |-> <<>>]

\* AWSLoader.__init__, which the subclasses' __init__ do not call
AWSLoader_init(l, sstore, region, hide) ==
    [l EXCEPT !.aws_sstore = sstore, !.aws_region = region,
              !.loaded_values = EmptyDict, !.hide_boto_debug = PyBool(hide)]

\* AWSLoader.populate_region_store_names(sstore, region, **kwargs)
populate_region_store_names(l, env, sstore, region, kwargs) ==
    LET kw_sstore == PyOr(sstore, kwargs.aws_sstore_name)
        kw_region == PyOr(region, kwargs.aws_region_name)
        os_sstore == getenv(env, AWS_SSTORE_NAME, PyNone)
        os_region == getenv(env, AWS_REGION_NAME, getenv(env, AWS_REGION, PyNone))
    IN  [l EXCEPT !.aws_sstore = IF kw_sstore # PyNone THEN kw_sstore ELSE os_sstore,
                  !.aws_region = IF kw_region # PyNone THEN kw_region ELSE os_region]

\* with self.disable_debug_logging(): the exception entering it raises
disable_debug_logging_exc(l) ==
    IF l.hide_boto_debug = Unset THEN "AttributeError" ELSE "none"

\* get_aws_client: whether a client comes back, and the exception raised
get_aws_client(l, answer) ==
    LET missing == IF l.cls = "AWSSecretLoader" THEN ~Truthy(l.aws_region)
                   ELSE l.aws_region = PyNone
    IN  IF missing THEN [client |-> FALSE, exc |-> "none"]
        ELSE IF disable_debug_logging_exc(l) # "none"
             THEN [client |-> FALSE, exc |-> disable_debug_logging_exc(l)]
        ELSE IF l.cls = "AWSSecretLoader" /\ answer.kind = "InvalidRegionError"
             THEN [client |-> FALSE, exc |-> "InvalidRegionError"]
        ELSE [client |-> TRUE, exc |-> "none"]

\* the name a secret that is not JSON is stored under, and its text
NotJSONText == <<"{", "z">>

\* AWSSecretLoader._resolve_response
resolve_response(l, answer) ==
    IF answer.kind = "NotJSON"
    THEN <<[k |-> l.aws_sstore.v, v |-> Str(NotJSONText)]>>
    ELSE json_object(answer.members)

\* what _load_values and run give back: the loader, the exception that
\* leaves the method and the returned value
Gives(l, flag) == [l |-> l, exc |-> "none", val |-> PyBool(flag)]

Throws(l, e) == [l |-> l, exc |-> e, val |-> PyNone]

\* AWSSecretLoader._load_values(aws_sstore_name, aws_region_name)
AWSSecretLoader_load_values(l0, env, hasBoto, answer, sstore, region) ==
    LET l == populate_region_store_names(
                 l0, env, PyOr(sstore, l0.aws_sstore), PyOr(region, l0.aws_region),
                 NoKwargs)
        c == get_aws_client(l, answer)
        secrets == resolve_response(l, answer)
    IN  IF ~hasBoto THEN Gives(l0, FALSE)
        ELSE IF l.aws_sstore = PyNone THEN Gives(l, FALSE)
        ELSE IF c.exc # "none" THEN Throws(l, c.exc)
        ELSE IF ~c.client THEN Gives(l, FALSE)
        ELSE IF disable_debug_logging_exc(l) # "none"
             THEN Throws(l, disable_debug_logging_exc(l))
        ELSE IF answer.kind \in {"NoCredentialsError", "ClientError"}
             THEN Gives(l, FALSE)
        ELSE Gives([l EXCEPT !.loaded_values = DictUpdate(@, secrets)],
                   secrets # EmptyDict)

\* a parameter of the store and a page of get_parameters_by_path: next is
\* the NextToken of the response, the number of the page it leads to
Param(name, value) == [name |-> name, value |-> value]

Page(kind, params, next) == [kind |-> kind, params |-> params, next |-> next]

\* resp.get("NextToken") of a response without one, and args without the key
NoToken == 0

\* a slip the key could have: the segment after the first "/"
SegmentAfterFirstSlash(name) ==
    IF Len(split(name, "/")) > 1 THEN split(name, "/")[2] ELSE name

\* param["Name"].split("/")[-1]
LastSegment(name) == split(name, "/")[Len(split(name, "/"))]

\* for param in resp["Parameters"]: self._loaded_values[key] = param["Value"]
RECURSIVE StoreParams(_, _, _)
StoreParams(params, d, do_split) ==
    IF params = <<>> THEN d
    ELSE LET name == Head(params).name
             key == IF do_split THEN LastSegment(name) ELSE name
         IN  StoreParams(Tail(params), DictSet(d, key, Str(Head(params).value)),
                         do_split)

\* get_parameters_by_path(**args): the page the store answers with
get_parameters_by_path(store, token) == store[IF token = NoToken THEN 1 ELSE token]

\* a slip the loop could have: it ends after the first response
ReadPages_first_only(store, token, l, do_split) ==
    LET resp == get_parameters_by_path(store, token)
        asked == [l EXCEPT !.requests = Append(@, token)]
        read == [asked EXCEPT
                   !.loaded_values = StoreParams(resp.params, @, do_split)]
    IN  IF resp.kind = "ClientError" THEN Gives(asked, FALSE)
        ELSE IF resp.kind # "Parameters" THEN Throws(asked, resp.kind)
        ELSE Gives(read, TRUE)

\* the while loop of AWSParameterStoreLoader._load_values: request, store
\* the parameters, go on with the NextToken of the response if it has one
RECURSIVE ReadPages(_, _, _, _)
ReadPages(store, token, l, do_split) ==
    LET resp == get_parameters_by_path(store, token)
        asked == [l EXCEPT !.requests = Append(@, token)]
        read == [asked EXCEPT
                   !.loaded_values = StoreParams(resp.params, @, do_split)]
    IN  IF resp.kind = "ClientError" THEN Gives(asked, FALSE)
        ELSE IF resp.kind # "Parameters" THEN Throws(asked, resp.kind)
        ELSE IF resp.next # NoToken
             THEN ReadPages(store, resp.next, read, do_split)
        ELSE Gives(read, TRUE)

\* AWSParameterStoreLoader._load_values(aws_sstore_name, aws_region_name)
AWSParameterStoreLoader_load_values(l0, env, hasBoto, pages, sstore, region) ==
    LET l == populate_region_store_names(
                 [l0 EXCEPT !.requests = <<>>], env, PyOr(sstore, l0.aws_sstore),
                 PyOr(region, l0.aws_region), NoKwargs)
        c == get_aws_client(l, pages)
        do_split == \E i \in 1..Len(l.aws_sstore.v) : l.aws_sstore.v[i] = "/"
    IN  IF ~hasBoto THEN Gives(l0, FALSE)
        ELSE IF l.aws_sstore = PyNone THEN Gives(l, TRUE)
        ELSE IF c.exc # "none" THEN Throws(l, c.exc)
        ELSE IF ~c.client THEN Gives(l, FALSE)
        ELSE IF disable_debug_logging_exc(l) # "none"
             THEN Throws(l, disable_debug_logging_exc(l))
        ELSE ReadPages(pages, NoToken, l, do_split)

\* value[-(len(value) // 4):], the part of a value that the debug log shows:
\* value[-k:] is the last k characters, and value[0:] when k is 0
log_suffix(value) ==
    LET k == Len(value) \div 4
    IN  IF k = 0 THEN value ELSE SubSeq(value, Len(value) - k + 1, Len(value))

\* self.logger.debug("Found, %s : ***%s", key, value[-(len(value) // 4):])
\* over the loaded values: len() of a value that is no str raises
log_values_exc(d) ==
    IF \E i \in 1..Len(d) : d[i].v.t # "str" THEN "TypeError" ELSE "none"

\* run() of EnvironLoader and of the AWS loaders: _load_values, then the log
RunOf(r) ==
    IF r.exc # "none" THEN r
    ELSE IF log_values_exc(r.l.loaded_values) # "none"
         THEN Throws(r.l, log_values_exc(r.l.loaded_values))
    ELSE r

\* the loader and the parameter store where no loader is used
IdleAwsLoader == AwsLoader("AWSSecretLoader", PyNone, PyNone)

IdleSsm == <<Page("ClientError", <<>>, NoToken)>>

---------------------------------------------------------------------------
(* The AWSLoader super class: run() around _run(), and the                 *)
(* disable_debug_logging context manager on the root logger                *)

\* logging levels
NOTSET == 0

DEBUG == 10

INFO == 20

WARNING == 30

\* AWSLoader(hide_boto_debug=..., capture_exceptions=...): ctx holds the
\* prior_root_level of the context that is entered and not yet left,
\* call_count the calls of _run the last run() made, cause the __cause__ of
\* the exception the last run() raised
AWSLoader(hide, capture) ==
    [hide_boto_debug |-> hide, capture_exceptions |-> capture,
     ctx |-> <<>>, call_count |-> 0, cause |-> "none"]

\* what _run does: return a flag or raise
RunReturns(flag) == [kind |-> "return", val |-> PyBool(flag), exc |-> "none"]

RunRaises(e) == [kind |-> "raise", val |-> PyNone, exc |-> e]

\* a slip run() could have: _run is tried a second time after it raised
AWSLoader_run_retrying(l, outcome) ==
    LET ran(n, c) == [l EXCEPT !.call_count = n, !.cause = c]
    IN  IF outcome.kind = "return"
        THEN [l |-> ran(1, "none"), exc |-> "none", val |-> outcome.val]
        ELSE IF l.capture_exceptions
        THEN [l |-> ran(2, "none"), exc |-> "none", val |-> PyBool(FALSE)]
        ELSE [l |-> ran(2, outcome.exc), exc |-> "LoaderException", val |-> PyNone]

\* AWSLoader.run: try: return self._run() / except Exception: log, raise
\* LoaderException(err) from err unless capture_exceptions / return False
AWSLoader_run(l, outcome) ==
    LET ran(n, c) == [l EXCEPT !.call_count = n, !.cause = c]
    IN  IF outcome.kind = "return"
        THEN [l |-> ran(1, "none"), exc |-> "none", val |-> outcome.val]
        ELSE IF l.capture_exceptions
        THEN [l |-> ran(1, "none"), exc |-> "none", val |-> PyBool(FALSE)]
        ELSE [l |-> ran(1, outcome.exc), exc |-> "LoaderException", val |-> PyNone]

\* disable_debug_logging up to its yield: the root level is saved and, with
\* hide_boto_debug, set to INFO
disable_debug_logging_enter(l, level) ==
    [l |-> [l EXCEPT !.ctx = <<level>>],
     level |-> IF l.hide_boto_debug THEN INFO ELSE level]

\* a slip the context manager could have: no try/finally, so an exception in
\* the body skips the restore
disable_debug_logging_exit_unprotected(l, level, how) ==
    [l |-> [l EXCEPT !.ctx = <<>>],
     level |-> IF l.hide_boto_debug /\ how = "return" THEN l.ctx[1] ELSE level]

\* disable_debug_logging after its yield (the finally block): how tells
\* whether the body returned or raised
disable_debug_logging_exit(l, level, how) ==
    [l |-> [l EXCEPT !.ctx = <<>>],
     level |-> IF l.hide_boto_debug THEN l.ctx[1] ELSE level]

\* Logger.isEnabledFor(DEBUG) of a logger that has no level of its own: its
\* effective level is the root's
debug_is_enabled(level) == DEBUG >= level

\* the AWSLoader instance where none is used
IdleBase == AWSLoader(TRUE, TRUE)

---------------------------------------------------------------------------
(* Spec: one SecretBox or LoadEnv instance and the sources it reads *)

KeyA == <<"A">>

KeyB == <<"B">>

Item(k, s) == [k |-> k, v |-> Str(s)]

Environs ==
    { EmptyDict,
      <<Item(KeyA, <<"x">>)>>,
      <<Item(KeyB, <<"x">>), Item(KeyA, <<"x">>)>> }

Files ==
    { NoFile,
      FileOf(<<"A", "=", "y">>),
      FileOf(<<"#", "A", "=", "y", "\n", "B", " ", "=", " ", "\"", "y", "\"">>),
      FileOf(<<"A", "=", "x", "\n", "A">>) }

Member(k, jv) == [k |-> k, v |-> jv]

Answer(kind, members) == [kind |-> kind, members |-> members]

AwsAnswers ==
    { Answer("NoCredentialsError", <<>>),
      Answer("ClientError", <<>>),
      Answer("InvalidRegionError", <<>>),
      Answer("NotJSON", <<>>),
      Answer("SecretString", <<>>),
      Answer("SecretString", <<Member(KeyA, JString(<<"z">>))>>),
      Answer("SecretString",
             <<Member(KeyB, JString(<<"z">>)), Member(KeyA, JNull)>>) }

Regions == {PyNone, Str(<<"r">>)}

Stores == {PyNone, Str(<<"s">>)}

GetKeys == {KeyA}

GetDefaults == {NoDefault, Str(<<"d">>), [t |-> "int", v |-> <<"4", "2">>]}

Init ==
    /\ awsb = IdleBase
    /\ root_level = WARNING
    /\ input = <<>>
    /\ efl = EmptyDict
    /\ ret = NoCall
    /\ environ \in Environs
    /\ file \in Files
    /\ boto3 \in BOOLEAN
    /\ aws \in AwsAnswers
    /\ ~boto3 => aws = Answer("NoCredentialsError", <<>>)
    /\ box \in [cls : {"SecretBox", "LoadEnv"}, aws_region : Regions,
                aws_sstore : Stores, loaded_values : {EmptyDict}]
    /\ held = "none"
    /\ pre = environ
    /\ envl = EmptyDict
    /\ awsl = IdleAwsLoader
    /\ ssm = IdleSsm

Box_load ==
    LET r == load(box, environ, file, boto3, aws)
    IN  /\ box' = [box EXCEPT !.loaded_values = r.values]
        /\ environ' = r.environ
        /\ ret' = IF r.exc = "none" THEN Returned("load", PyNone)
                  ELSE Raised("load", r.exc)
        /\ pre' = environ
        /\ UNCHANGED <<loaders, input, efl, file, boto3, aws, held>>

Box_load_env_vars ==
    /\ box' = [box EXCEPT !.loaded_values = load_env_vars(@, environ)]
    /\ ret' = Returned("load_env_vars", PyNone)
    /\ pre' = environ
    /\ UNCHANGED <<loaders, input, efl, environ, file, boto3, aws, held>>

Box_load_env_file ==
    LET r == load_env_file(box.loaded_values, file)
    IN  /\ box' = [box EXCEPT !.loaded_values = r.values]
        /\ ret' = Returned("load_env_file", r.val)
        /\ pre' = environ
        /\ UNCHANGED <<loaders, input, efl, environ, file, boto3, aws, held>>

Box_load_aws_store ==
    LET r == load_aws_store(box, boto3, aws)
    IN  /\ box' = [box EXCEPT !.loaded_values = r.values]
        /\ ret' = IF r.exc = "none" THEN Returned("load_aws_store", r.val)
                  ELSE Raised("load_aws_store", r.exc)
        /\ pre' = environ
        /\ UNCHANGED <<loaders, input, efl, environ, file, boto3, aws, held>>

Box_push_to_environment ==
    LET r == push_to_environment(box.loaded_values, environ)
    IN  /\ environ' = r.environ
        /\ ret' = IF r.exc = "none" THEN Returned("push_to_environment", PyNone)
                  ELSE Raised("push_to_environment", r.exc)
        /\ pre' = environ
        /\ UNCHANGED <<loaders, input, efl, file, boto3, aws, box, held>>

Box_get ==
    \E key \in GetKeys, default \in GetDefaults :
        /\ box.cls = "LoadEnv" => default = NoDefault
        /\ ret' = [Returned("get", get(box, key, default))
                     EXCEPT !.key = key, !.default = default]
        /\ pre' = environ
        /\ UNCHANGED <<loaders, input, efl, environ, file, boto3, aws, box, held>>

\* first_values = box.loaded_values: the attribute is the dict itself
Caller_reads_loaded_values ==
    /\ held' = "box.loaded_values"
    /\ ret' = Returned("loaded_values", PyNone)
    /\ pre' = environ
    /\ UNCHANGED <<loaders, input, efl, environ, file, boto3, aws, box>>

\* first_values[key] = "m" on the object the caller holds
Caller_sets_held_item ==
    /\ held = "box.loaded_values"
    /\ \E key \in GetKeys :
        /\ box' = [box EXCEPT !.loaded_values = DictSet(@, key, Str(<<"m">>))]
        /\ ret' = [Returned("held_setitem", PyNone) EXCEPT !.key = key]
    /\ pre' = environ
    /\ UNCHANGED <<loaders, input, efl, environ, file, boto3, aws, held>>

Next ==
    \/ Box_load
    \/ Box_load_env_vars
    \/ Box_load_env_file
    \/ Box_load_aws_store
    \/ Box_push_to_environment
    \/ Box_get
    \/ Caller_reads_loaded_values
    \/ Caller_sets_held_item

Spec == Init /\ [][Next]_vars

---------------------------------------------------------------------------
(* The typed accessors get_int, get_float and get_bool of SecretBox.  Their  *)
(* code is not in secretbox.py; they follow section 4.5 of the specification *)
(* and tests/secretbox_test.py.                                              *)

Digits == {"0", "1", "2", "3", "4", "5", "6", "7", "8", "9"}

Unsigned(s) == IF s # <<>> /\ s[1] \in {"-", "+"} THEN Tail(s) ELSE s

\* a string that converts to an integer: an optional sign and digits
IsIntText(s) ==
    /\ Unsigned(s) # <<>>
    /\ \A i \in 1..Len(Unsigned(s)) : Unsigned(s)[i] \in Digits

\* a string that converts to a float: an optional sign, digits and one "."
IsFloatText(s) ==
    LET u == Unsigned(s)
    IN  /\ Cardinality({i \in 1..Len(u) : u[i] = "."}) = 1
        /\ \E i \in 1..Len(u) : u[i] \in Digits
        /\ \A i \in 1..Len(u) : u[i] \in Digits \cup {"."}

RECURSIVE NoLeadingZeros(_)
NoLeadingZeros(u) ==
    IF Len(u) > 1 /\ u[1] = "0" THEN NoLeadingZeros(Tail(u)) ELSE u

\* the integer a string converts to, as its decimal text
IntOf(s) ==
    LET u == NoLeadingZeros(Unsigned(s))
    IN  [t |-> "int", v |-> IF s[1] = "-" /\ u # <<"0">> THEN <<"-">> \o u ELSE u]

\* the float a string converts to, as its text without a "+" sign
FloatOf(s) == [t |-> "float", v |-> IF s[1] = "+" THEN Tail(s) ELSE s]

TrueTexts == {<<"t", "r", "u", "e">>, <<"1">>}

FalseTexts == {<<"f", "a", "l", "s", "e">>, <<"0">>}

LowerText(s) == [i \in 1..Len(s) |-> lower(s[i])]

\* whether a stored string converts to the accessor's type
Converts(type, s) ==
    CASE type = "int" -> IsIntText(s)
      [] type = "float" -> IsFloatText(s)
      [] type = "bool" -> LowerText(s) \in TrueTexts \cup FalseTexts

\* the value a convertible stored string converts to
Convert(type, s) ==
    CASE type = "int" -> IntOf(s)
      [] type = "float" -> FloatOf(s)
      [] type = "bool" -> PyBool(LowerText(s) \in TrueTexts)

\* the part the typed accessors share: the default's type is checked before
\* any lookup, an absent key gives the default or KeyError, a present key
\* the conversion of its stored string or ValueError
TypedGet(b, key, default, type) ==
    IF default # NoDefault /\ default.t # type
    THEN [exc |-> "TypeError", val |-> PyNone]
    ELSE IF ~HasKey(b.loaded_values, key)
         THEN IF default = NoDefault THEN [exc |-> "KeyError", val |-> PyNone]
              ELSE [exc |-> "none", val |-> default]
    ELSE LET stored == DictGet(b.loaded_values, key)
         IN  IF stored.t = "str" /\ Converts(type, stored.v)
             THEN [exc |-> "none", val |-> Convert(type, stored.v)]
             ELSE [exc |-> "ValueError", val |-> PyNone]

\* a slip get_int could have: truncating a float-looking string
get_int_truncating(b, key, default) ==
    LET plain == TypedGet(b, key, default, "int")
        stored == DictGet(b.loaded_values, key)
        whole == SubSeq(stored.v, 1, find(stored.v, ".") - 1)
    IN  IF plain.exc = "ValueError" /\ stored.t = "str" /\ IsFloatText(stored.v)
        THEN [exc |-> "none",
              val |-> IF IsIntText(whole) THEN IntOf(whole)
                      ELSE [t |-> "int", v |-> <<"0">>]]
        ELSE plain

get_int(b, key, default) == TypedGet(b, key, default, "int")

get_float(b, key, default) == TypedGet(b, key, default, "float")

get_bool(b, key, default) == TypedGet(b, key, default, "bool")

---------------------------------------------------------------------------
(* SpecTyped: a SecretBox that loads one stored string and converts it *)

MaxStoredTokens == 3

StoredTokens ==
    { <<"4">>, <<"0">>, <<"1">>, <<".">>, <<"-">>, <<"x">>,
      <<"t", "r", "u", "e">>, <<"T", "R", "U", "E">>,
      <<"f", "a", "l", "s", "e">>, <<"F", "a", "l", "s", "e">> }

RECURSIVE StoredTexts(_)
StoredTexts(n) ==
    IF n = 0 THEN {<<>>}
    ELSE LET shorter == StoredTexts(n - 1)
         IN  shorter \cup {s \o t : s \in shorter, t \in StoredTokens}

TypedDefaults ==
    { NoDefault, Str(<<"d">>), [t |-> "int", v |-> <<"4", "2">>],
      [t |-> "float", v |-> <<"3", ".", "1", "4">>], PyBool(FALSE) }

InitTyped ==
    /\ awsb = IdleBase
    /\ root_level = WARNING
    /\ input = <<>>
    /\ efl = EmptyDict
    /\ ret = NoCall
    /\ environ = EmptyDict
    /\ file \in {NoFile}
                 \cup {FileOf(<<"A", "=">> \o s) : s \in StoredTexts(MaxStoredTokens)}
    /\ boto3 = FALSE
    /\ aws = Answer("NoCredentialsError", <<>>)
    /\ box = [cls |-> "SecretBox", aws_region |-> PyNone, aws_sstore |-> PyNone,
              loaded_values |-> EmptyDict]
    /\ held = "none"
    /\ pre = EmptyDict
    /\ envl = EmptyDict
    /\ awsl = IdleAwsLoader
    /\ ssm = IdleSsm

TypedCall(op, key, default, r) ==
    /\ ret' = [op |-> op, key |-> key, default |-> default,
               exc |-> r.exc, val |-> r.val]
    /\ pre' = environ
    /\ UNCHANGED <<loaders, input, efl, environ, file, boto3, aws, box, held>>

Box_get_int ==
    \E default \in TypedDefaults :
        TypedCall("get_int", KeyA, default, get_int(box, KeyA, default))

Box_get_float ==
    \E default \in TypedDefaults :
        TypedCall("get_float", KeyA, default, get_float(box, KeyA, default))

Box_get_bool ==
    \E default \in TypedDefaults :
        TypedCall("get_bool", KeyA, default, get_bool(box, KeyA, default))

NextTyped ==
    \/ Box_load_env_file
    \/ Box_get_int
    \/ Box_get_float
    \/ Box_get_bool

SpecTyped == InitTyped /\ [][NextTyped]_vars

---------------------------------------------------------------------------
(* SpecParse: the EnvFileLoader methods applied to one input string *)

InitParse ==
    /\ awsb = IdleBase
    /\ root_level = WARNING
    /\ input \in Inputs
    /\ efl = EmptyDict
    /\ ret = NoCall
    /\ environ = EmptyDict
    /\ file = NoFile
    /\ boto3 = FALSE
    /\ aws = Answer("NoCredentialsError", <<>>)
    /\ box = [cls |-> "SecretBox", aws_region |-> PyNone, aws_sstore |-> PyNone,
              loaded_values |-> EmptyDict]
    /\ held = "none"
    /\ pre = EmptyDict
    /\ envl = EmptyDict
    /\ awsl = IdleAwsLoader
    /\ ssm = IdleSsm

EnvFileLoader_parse_env_file ==
    /\ ret.op = "none"
    /\ efl' = parse_env_file(input, efl)
    /\ ret' = Returned("parse_env_file", PyNone)
    /\ UNCHANGED <<input, world>>

EnvFileLoader_remove_lt_quotes ==
    /\ ret.op = "none"
    /\ ret' = Returned("remove_lt_quotes", Str(remove_lt_quotes(input)))
    /\ UNCHANGED <<input, efl, world>>

EnvFileLoader_strip_export ==
    /\ ret.op = "none"
    /\ ret' = Returned("strip_export", Str(strip_export(input)))
    /\ UNCHANGED <<input, efl, world>>

\* remove_lt_quotes applied to what remove_lt_quotes returned; key records
\* the argument
EnvFileLoader_remove_lt_quotes_again ==
    /\ ret.op = "remove_lt_quotes"
    /\ ret' = [Returned("remove_lt_quotes_again", Str(remove_lt_quotes(ret.val.v)))
                 EXCEPT !.key = ret.val.v]
    /\ UNCHANGED <<input, efl, world>>

\* SecretBox.__parse_env_file on the text EnvFileLoader.parse_env_file was
\* given
Box_parse_env_file ==
    /\ ret.op = "parse_env_file"
    /\ box' = [box EXCEPT !.loaded_values = box_parse_env_file(input, @)]
    /\ ret' = Returned("SecretBox.__parse_env_file", PyNone)
    /\ UNCHANGED <<input, efl, environ, file, boto3, aws, held, pre, loaders>>

\* logger.debug("... ***%s", value[-(len(value) // 4):]) of run() and
\* push_to_environment, for the value input
Logger_debug_value ==
    /\ ret.op = "none"
    /\ ret' = Returned("log_suffix", Str(log_suffix(input)))
    /\ UNCHANGED <<input, efl, world>>

NextParse ==
    \/ Logger_debug_value
    \/ EnvFileLoader_parse_env_file
    \/ Box_parse_env_file
    \/ EnvFileLoader_remove_lt_quotes
    \/ EnvFileLoader_remove_lt_quotes_again
    \/ EnvFileLoader_strip_export

SpecParse == InitParse /\ [][NextParse]_vars

---------------------------------------------------------------------------
(* SpecLoaders: one loader of each class, the sources they read, and the   *)
(* SecretBox methods that read the same sources                            *)

EnvItem(k, s) == [k |-> k, v |-> Str(s)]

LoaderEnvirons ==
    { EmptyDict,
      <<EnvItem(KeyA, <<"x">>)>>,
      <<EnvItem(AWS_SSTORE_NAME, <<"s">>), EnvItem(AWS_REGION_NAME, <<"r">>)>>,
      <<EnvItem(AWS_REGION, <<"q">>)>>,
      <<EnvItem(AWS_REGION_NAME, <<>>), EnvItem(AWS_REGION, <<"q">>)>>,
      <<EnvItem(KeyA, <<"x">>), EnvItem(AWS_SSTORE_NAME, <<"/", "p">>),
        EnvItem(AWS_REGION_NAME, <<"r">>), EnvItem(AWS_REGION, <<"q">>)>> }

LoaderFiles ==
    { NoFile,
      FileOf(<<"#", "A">>),
      FileOf(<<"A", "=", "y">>),
      FileOf(<<"B", "=", "y", "\n", "=", "y">>) }

LoaderStores == {PyNone, Str(<<"s">>), Str(<<"/", "p">>)}

LoaderRegions == {PyNone, Str(<<"r">>)}

NameA == <<"/", "p", "/", "A">>

NameQB == <<"/", "p", "/", "q", "/", "B">>

\* the answers of the parameter store: pages in request order, the last
\* one without a NextToken
SsmAnswers ==
    { <<Page("ClientError", <<>>, NoToken)>>,
      <<Page("NoCredentialsError", <<>>, NoToken)>>,
      <<Page("Parameters", <<>>, NoToken)>>,
      <<Page("Parameters", <<Param(NameA, <<"z">>), Param(KeyB, <<"z">>)>>, NoToken)>>,
      <<Page("Parameters", <<Param(NameA, <<"z">>)>>, 2),
        Page("Parameters", <<Param(NameQB, <<"w">>)>>, NoToken)>>,
      <<Page("Parameters", <<Param(NameA, <<"z">>)>>, 2),
        Page("ClientError", <<>>, NoToken)>>,
      <<Page("Parameters", <<Param(KeyB, <<"z">>)>>, 2),
        Page("Parameters", <<>>, 3),
        Page("Parameters", <<Param(NameA, <<"w">>)>>, NoToken)>> }

FreshBox ==
    [cls |-> "SecretBox", aws_region |-> PyNone, aws_sstore |-> PyNone,
     loaded_values |-> EmptyDict]

InitLoaders ==
    /\ awsb = IdleBase
    /\ root_level = WARNING
    /\ input = <<>>
    /\ efl = EmptyDict
    /\ envl = EmptyDict
    /\ ret = NoCall
    /\ environ \in {EmptyDict, <<EnvItem(KeyA, <<"x">>)>>}
    /\ pre = environ
    /\ box = FreshBox
    /\ held = "none"
    /\ file \in LoaderFiles
    /\ boto3 = TRUE
    /\ aws = Answer("SecretString", <<Member(KeyA, JString(<<"z">>))>>)
    /\ ssm = <<Page("Parameters", <<Param(NameA, <<"z">>)>>, NoToken)>>
    /\ awsl \in {AwsLoader("AWSSecretLoader", Str(<<"s">>), Str(<<"r">>)),
                 AwsLoader("AWSParameterStoreLoader", Str(<<"/", "p">>), Str(<<"r">>))}

\* the result of a call: its name, arguments, exception and returned value
Called(op, args, exc, val) ==
    [NoCall EXCEPT !.op = op, !.args = args, !.exc = exc,
                   !.val = IF exc = "none" THEN val ELSE PyNone]

Efl_load_values ==
    LET r == EnvFileLoader_load_values(efl, file)
    IN  /\ efl' = r.values
        /\ ret' = Called("EnvFileLoader._load_values", <<>>, "none", r.val)
        /\ pre' = environ
        /\ UNCHANGED <<loaders, input, environ, file, boto3, aws, box, held>>

Efl_run ==
    LET r == EnvFileLoader_run(efl, file, environ)
    IN  /\ efl' = r.values
        /\ environ' = r.environ
        /\ ret' = Called("EnvFileLoader.run", <<>>, r.exc, r.val)
        /\ pre' = environ
        /\ UNCHANGED <<loaders, input, file, boto3, aws, box, held>>

Envl_load_values ==
    LET r == EnvironLoader_load_values(envl, environ)
    IN  /\ envl' = r.values
        /\ ret' = Called("EnvironLoader._load_values", <<>>, "none", r.val)
        /\ pre' = environ
        /\ UNCHANGED <<awsl, ssm, base, input, efl, environ, file, boto3, aws, box,
                     held>>

Envl_run ==
    LET r == EnvironLoader_load_values(envl, environ)
    IN  /\ envl' = r.values
        /\ ret' = Called("EnvironLoader.run", <<>>, log_values_exc(r.values), r.val)
        /\ pre' = environ
        /\ UNCHANGED <<awsl, ssm, base, input, efl, environ, file, boto3, aws, box,
                     held>>

\* the arguments a caller passes for store and region
ArgStores == {PyNone, Str(<<"/", "p">>)}

ArgRegions == {PyNone, Str(<<>>), Str(<<"r">>)}

AwsLoad(l, sstore, region) ==
    IF l.cls = "AWSSecretLoader"
    THEN AWSSecretLoader_load_values(l, environ, boto3, aws, sstore, region)
    ELSE AWSParameterStoreLoader_load_values(l, environ, boto3, ssm, sstore, region)

Awsl_load_values ==
    \E sstore \in ArgStores, region \in ArgRegions :
        LET r == AwsLoad(awsl, sstore, region)
        IN  /\ awsl' = r.l
            /\ ret' = Called(awsl.cls \o "._load_values", <<sstore, region>>,
                             r.exc, r.val)
            /\ pre' = environ
            /\ UNCHANGED <<envl, ssm, base, input, efl, environ, file, boto3, aws, box,
                         held>>

Awsl_run ==
    LET r == RunOf(AwsLoad(awsl, PyNone, PyNone))
    IN  /\ awsl' = r.l
        /\ ret' = Called(awsl.cls \o ".run", <<>>, r.exc, r.val)
        /\ pre' = environ
        /\ UNCHANGED <<envl, ssm, base, input, efl, environ, file, boto3, aws, box,
                         held>>

Awsl_populate_region_store_names ==
    \E sstore \in ArgStores, region \in ArgRegions,
       kw_sstore \in {PyNone, Str(<<"k">>)}, kw_region \in {PyNone, Str(<<"k">>)} :
        /\ awsl' = populate_region_store_names(
                       awsl, environ, sstore, region,
                       [aws_sstore_name |-> kw_sstore, aws_region_name |-> kw_region])
        /\ ret' = Called("populate_region_store_names",
                         <<sstore, region, kw_sstore, kw_region>>, "none", PyNone)
        /\ pre' = environ
        /\ UNCHANGED <<envl, ssm, base, input, efl, environ, file, boto3, aws, box,
                         held>>

\* AWSLoader.__init__(loader, ...) applied to the instance
Awsl_AWSLoader_init ==
    \E hide \in BOOLEAN :
        /\ awsl.hide_boto_debug = Unset
        /\ awsl' = AWSLoader_init(awsl, awsl.aws_sstore, awsl.aws_region, hide)
        /\ ret' = Called("AWSLoader.__init__", <<PyBool(hide)>>, "none", PyNone)
        /\ pre' = environ
        /\ UNCHANGED <<envl, ssm, base, input, efl, environ, file, boto3, aws, box,
                         held>>

\* os.environ[key] = "w" and del os.environ[key] by the caller
Caller_environ_setitem ==
    /\ environ' = DictSet(environ, KeyA, Str(<<"w">>))
    /\ ret' = Called("environ_setitem", <<Str(KeyA)>>, "none", PyNone)
    /\ pre' = environ
    /\ UNCHANGED <<loaders, input, efl, file, boto3, aws, box, held>>

Caller_environ_delitem ==
    /\ HasKey(environ, KeyA)
    /\ environ' = SelectSeq(environ, LAMBDA e : e.k # KeyA)
    /\ ret' = Called("environ_delitem", <<Str(KeyA)>>, "none", PyNone)
    /\ pre' = environ
    /\ UNCHANGED <<loaders, input, efl, file, boto3, aws, box, held>>

\* the caller removes the file
Caller_unlink_file ==
    /\ file.exists
    /\ file' = NoFile
    /\ ret' = Called("unlink", <<>>, "none", PyNone)
    /\ pre' = environ
    /\ UNCHANGED <<loaders, input, efl, environ, boto3, aws, box, held>>

NextLoaders ==
    \/ Efl_load_values
    \/ Efl_run
    \/ Envl_load_values
    \/ Envl_run
    \/ Awsl_run
    \/ Awsl_AWSLoader_init
    \/ Caller_environ_setitem
    \/ Caller_environ_delitem
    \/ Caller_unlink_file
    \/ Box_load
    \/ Box_load_env_file
    \/ Box_push_to_environment

SpecLoaders == InitLoaders /\ [][NextLoaders]_vars

\* SpecAws: one AWSSecretLoader or AWSParameterStoreLoader and its store
InitAws ==
    /\ awsb = IdleBase
    /\ root_level = WARNING
    /\ input = <<>>
    /\ efl = EmptyDict
    /\ envl = EmptyDict
    /\ ret = NoCall
    /\ environ \in LoaderEnvirons
    /\ pre = environ
    /\ box = FreshBox
    /\ held = "none"
    /\ file = NoFile
    /\ boto3 \in BOOLEAN
    /\ \/ /\ aws \in AwsAnswers
          /\ ssm = IdleSsm
          /\ awsl \in {AwsLoader("AWSSecretLoader", s, r) :
                          s \in LoaderStores, r \in LoaderRegions}
       \/ /\ aws = Answer("NoCredentialsError", <<>>)
          /\ ssm \in SsmAnswers
          /\ awsl \in {AwsLoader("AWSParameterStoreLoader", s, r) :
                          s \in LoaderStores, r \in LoaderRegions}

NextAws ==
    \/ Awsl_load_values
    \/ Awsl_run
    \/ Awsl_populate_region_store_names
    \/ Awsl_AWSLoader_init

SpecAws == InitAws /\ [][NextAws]_vars

---------------------------------------------------------------------------
(* SpecBase: one AWSLoader instance, the root logger and their caller *)

Levels == {NOTSET, DEBUG, INFO, WARNING}

RunOutcomes ==
    { RunReturns(TRUE), RunReturns(FALSE),
      RunRaises("NotImplementedError"), RunRaises("ClientError") }

InitBase ==
    /\ input = <<>>
    /\ efl = EmptyDict
    /\ envl = EmptyDict
    /\ ret = NoCall
    /\ environ = EmptyDict
    /\ pre = environ
    /\ box = FreshBox
    /\ held = "none"
    /\ file = NoFile
    /\ boto3 = TRUE
    /\ aws = Answer("NoCredentialsError", <<>>)
    /\ ssm = IdleSsm
    /\ awsl = IdleAwsLoader
    /\ awsb \in {AWSLoader(hide, capture) : hide \in BOOLEAN, capture \in BOOLEAN}
    /\ root_level = WARNING

\* awsloader.run() with _run returning or raising as the caller patched it
Base_run ==
    \E outcome \in RunOutcomes :
        LET r == AWSLoader_run([awsb EXCEPT !.call_count = 0], outcome)
        IN  /\ awsb' = r.l
            /\ ret' = Called("AWSLoader.run", <<outcome>>, r.exc, r.val)
            /\ UNCHANGED <<root_level, envl, awsl, ssm, input, efl, environ, file,
                           boto3, aws, box, held, pre>>

\* with awsloader.disable_debug_logging(): the block is entered
Base_enter_context ==
    /\ awsb.ctx = <<>>
    /\ LET r == disable_debug_logging_enter(awsb, root_level)
       IN  /\ awsb' = r.l
           /\ root_level' = r.level
    /\ ret' = Called("disable_debug_logging.__enter__", <<>>, "none", PyNone)
    /\ UNCHANGED <<envl, awsl, ssm, input, efl, environ, file, boto3, aws, box,
                   held, pre>>

\* the block is left, by its last statement or by an exception of the body
Base_exit_context ==
    \E how \in {"return", "raise"} :
        /\ awsb.ctx # <<>>
        /\ LET r == disable_debug_logging_exit(awsb, root_level, how)
           IN  /\ awsb' = r.l
               /\ root_level' = r.level
        /\ ret' = Called("disable_debug_logging.__exit__", <<how>>,
                         IF how = "raise" THEN "ClientError" ELSE "none", PyNone)
        /\ UNCHANGED <<envl, awsl, ssm, input, efl, environ, file, boto3, aws, box,
                       held, pre>>

\* logger.debug(...) of a logger without a level of its own; the returned
\* flag tells whether the record is handled
Logger_debug ==
    /\ ret' = Called("logger.debug", <<>>, "none", PyBool(debug_is_enabled(root_level)))
    /\ UNCHANGED <<base, envl, awsl, ssm, input, efl, environ, file, boto3, aws,
                   box, held, pre>>

\* logging.getLogger().setLevel(level) by the caller, outside the block
Caller_setLevel ==
    \E level \in Levels :
        /\ awsb.ctx = <<>>
        /\ root_level' = level
        /\ ret' = Called("setLevel", <<level>>, "none", PyNone)
        /\ UNCHANGED <<awsb, envl, awsl, ssm, input, efl, environ, file, boto3, aws,
                       box, held, pre>>

NextBase ==
    \/ Base_run
    \/ Base_enter_context
    \/ Base_exit_context
    \/ Logger_debug
    \/ Caller_setLevel

SpecBase == InitBase /\ [][NextBase]_vars

---------------------------------------------------------------------------
(* Predicates on strings that the properties use *)

NoneOf(s, chars) == \A i \in 1..Len(s) : s[i] \notin chars

NoOuterSpace(s) == s = <<>> \/ (~IsSpace(s[1]) /\ ~IsSpace(s[Len(s)]))

---------------------------------------------------------------------------
(* Properties of load(), get() and loaded_values, under Spec *)

\* what each source of load() defines, read off the sources themselves
FileDefines ==
    IF file.exists THEN box_parse_env_file(file.text, EmptyDict) ELSE EmptyDict

AwsDefines ==
    IF /\ boto3
       /\ box.aws_region # PyNone
       /\ box.aws_sstore # PyNone
       /\ aws.kind = "SecretString"
    THEN json_object(aws.members)
    ELSE EmptyDict

\* the sources in the order environment, file, AWS
SourceSeq == <<pre, FileDefines, AwsDefines>>

DefinedTwice(K) ==
    \E i, j \in 1..3 :
        /\ i < j
        /\ HasKey(SourceSeq[i], K)
        /\ HasKey(SourceSeq[j], K)
        /\ DictGet(SourceSeq[i], K) # DictGet(SourceSeq[j], K)

LastDefining(K) ==
    CHOOSE j \in 1..3 :
        /\ HasKey(SourceSeq[j], K)
        /\ \A n \in (j + 1)..3 : ~HasKey(SourceSeq[n], K)

AllKeys == Keys(pre) \cup Keys(FileDefines) \cup Keys(AwsDefines)

C2_LoadedValuesIsCopy ==
    [][(ret'.op = "held_setitem" /\ box.cls = "SecretBox")
          => box'.loaded_values = box.loaded_values]_vars

\* C3: SecretBox.get returns the stored value of a present key, the default
\* of an absent key when one is given, and raises KeyError for an absent key
\* without default.
C3_GetMissingKeyRaises ==
    (ret.op = "get" /\ box.cls = "SecretBox") =>
        IF HasKey(box.loaded_values, ret.key)
        THEN ret.exc = "none" /\ ret.val = DictGet(box.loaded_values, ret.key)
        ELSE IF ret.default # NoDefault
             THEN ret.exc = "none" /\ ret.val = ret.default
             ELSE ret.exc = "KeyError"

\* C4: LoadEnv.get never raises and never returns None: the empty string for
\* an absent key, the stored value for a present key.
C4_LoadEnvGetNeverNone ==
    (ret.op = "get" /\ box.cls = "LoadEnv") =>
        /\ ret.exc = "none"
        /\ ret.val # PyNone
        /\ IF HasKey(box.loaded_values, ret.key)
           THEN ret.val = DictGet(box.loaded_values, ret.key)
           ELSE ret.val = Str(<<>>)

\* C5: SecretBox.get raises TypeError for a default that is not a str, also
\* when the key is present.
C5_InvalidDefaultRejected ==
    (ret.op = "get" /\ box.cls = "SecretBox" /\ ret.default # NoDefault
        /\ ret.default.t # "str")
        => ret.exc = "TypeError"

\* C7: a default SecretBox never silently replaces a value: load() raises
\* KeyError when two of its sources define a key with different values.
C7_StrictLoadRaises ==
    (ret.op = "load" /\ box.cls = "SecretBox" /\ \E K \in AllKeys : DefinedTwice(K))
        => ret.exc = "KeyError"

---------------------------------------------------------------------------
(* Properties of the typed accessors, under SpecTyped *)

StoredText == DictGet(box.loaded_values, KeyA).v

ConvertsPresent(op) ==
    /\ ret.op = op
    /\ HasKey(box.loaded_values, ret.key)
    /\ ret.default = NoDefault

\* C6: on a present key get_int, get_float and get_bool either convert or
\* raise ValueError, never KeyError, and never coerce: get_int raises for a
\* string holding a "." or any other non-digit, get_float for a string
\* without ".", and get_bool returns True only for true/1 and False only
\* for false/0 in any letter case.
C6_NoCoercion ==
    /\ (\E op \in {"get_int", "get_float", "get_bool"} : ConvertsPresent(op))
          => ret.exc \in {"none", "ValueError"}
    /\ (ConvertsPresent("get_int")
          /\ \E i \in 1..Len(StoredText) : StoredText[i] \notin Digits \cup {"-", "+"})
          => ret.exc = "ValueError"
    /\ (ConvertsPresent("get_float") /\ NoneOf(StoredText, {"."}))
          => ret.exc = "ValueError"
    /\ ConvertsPresent("get_bool") =>
          LET low == [i \in 1..Len(StoredText) |->
                         CASE StoredText[i] = "T" -> "t" [] StoredText[i] = "R" -> "r"
                           [] StoredText[i] = "U" -> "u" [] StoredText[i] = "E" -> "e"
                           [] StoredText[i] = "F" -> "f" [] OTHER -> StoredText[i]]
          IN  CASE low \in {<<"t", "r", "u", "e">>, <<"1">>} ->
                     ret.exc = "none" /\ ret.val = PyBool(TRUE)
                [] low \in {<<"f", "a", "l", "s", "e">>, <<"0">>} ->
                     ret.exc = "none" /\ ret.val = PyBool(FALSE)
                [] OTHER -> ret.exc = "ValueError"

C6_Witness ==
    /\ ConvertsPresent("get_int")
    /\ StoredText = <<"4", ".", "0">>
    /\ ret.exc = "ValueError"

---------------------------------------------------------------------------
(* Properties of the EnvFileLoader methods, under SpecParse *)

\* s is K=V1=V2 cut at its first "=" (index i) and its second (index j),
\* with K, V1 and V2 free of quotes and of outer whitespace, on one line
\* that is not a comment
IsKV1V2(s, i, j) ==
    LET K == SubSeq(s, 1, i - 1)
        V1 == SubSeq(s, i + 1, j - 1)
        V2 == SubSeq(s, j + 1, Len(s))
    IN  /\ i < j
        /\ s[i] = "=" /\ s[j] = "="
        /\ NoneOf(s, {"\n"})
        /\ NoneOf(K, {"="} \cup Quotes) /\ NoOuterSpace(K)
        /\ NoneOf(V1, {"="} \cup Quotes) /\ NoOuterSpace(V1)
        /\ NoneOf(V2, Quotes) /\ NoOuterSpace(V2)
        /\ ~(K # <<>> /\ K[1] = "#")

\* K begins with the word export, in any letter case, and a whitespace
BeginsWithExport(K) ==
    /\ Len(K) >= 7
    /\ \A n \in 1..6 : K[n] \in {ExportWord[n], <<"E", "X", "P", "O", "R", "T">>[n]}
    /\ IsSpace(K[7])

OnlyEntry(K, V) == <<[k |-> K, v |-> Str(V)]>>

\* C8 as stated: parse_env_file maps K to V1=V2 for every retained line
\* K=V1=V2.
C8_FirstEqualsAnyKey ==
    ret.op = "parse_env_file" =>
        \A i, j \in 1..Len(input) :
            IsKV1V2(input, i, j) =>
                efl = OnlyEntry(SubSeq(input, 1, i - 1),
                                SubSeq(input, i + 1, Len(input)))

\* C8 as amended: parse_env_file maps K to V1=V2 for every retained line
\* K=V1=V2 whose K does not begin with export and a whitespace.
C8_FirstEqualsSplit ==
    ret.op = "parse_env_file" =>
        \A i, j \in 1..Len(input) :
            (IsKV1V2(input, i, j) /\ ~BeginsWithExport(SubSeq(input, 1, i - 1))) =>
                efl = OnlyEntry(SubSeq(input, 1, i - 1),
                                SubSeq(input, i + 1, Len(input)))

C8_Witness ==
    /\ ret.op = "parse_env_file"
    /\ input = <<"A", "=", "A", "=", "A">>
    /\ IsKV1V2(input, 2, 4)
    /\ efl = OnlyEntry(<<"A">>, <<"A", "=", "A">>)

\* a line that is empty, whose first non-blank character is "#", or that
\* holds no "="
IsIgnoredLine(line) ==
    \/ line = <<>>
    \/ \E i \in 1..Len(line) :
          line[i] = "#" /\ \A n \in 1..(i - 1) : IsSpace(line[n])
    \/ NoneOf(line, {"="})

RECURSIVE WithoutIgnored(_)
WithoutIgnored(lines) ==
    IF lines = <<>> THEN <<>>
    ELSE IF IsIgnoredLine(Head(lines)) THEN WithoutIgnored(Tail(lines))
    ELSE <<Head(lines)>> \o WithoutIgnored(Tail(lines))

RECURSIVE JoinLines(_)
JoinLines(lines) ==
    IF lines = <<>> THEN <<>>
    ELSE IF Len(lines) = 1 THEN lines[1]
    ELSE lines[1] \o <<"\n">> \o JoinLines(Tail(lines))

\* C9: parse_env_file stores nothing for an empty line, a comment line or a
\* line without "=": the loaded values are those of the text without such
\* lines, and nothing at all when every line is one.
C9_IgnoredLinesAddNothing ==
    ret.op = "parse_env_file" =>
        LET lines == split(input, "\n")
            kept == WithoutIgnored(lines)
        IN  /\ efl = parse_env_file(JoinLines(kept), EmptyDict)
            /\ kept = <<>> => efl = EmptyDict
            /\ Len(efl) <= Len(kept)

C9_Witness ==
    /\ ret.op = "parse_env_file"
    /\ Len(split(input, "\n")) = 5
    /\ Len(WithoutIgnored(split(input, "\n"))) = 2
    /\ efl = <<[k |-> <<"A">>, v |-> Str(<<"A">>)],
               [k |-> <<"B">>, v |-> Str(<<"=">>)]>>

\* C10: remove_lt_quotes of a trimmed one-line value strips one layer of a
\* matching leading and trailing quote pair and returns any other value
\* untouched.
C10_StripsOneLayer ==
    (ret.op = "remove_lt_quotes" /\ NoOuterSpace(input) /\ NoneOf(input, {"\n"})) =>
        IF Len(input) >= 2 /\ input[1] \in Quotes /\ input[Len(input)] = input[1]
        THEN ret.val = Str(SubSeq(input, 2, Len(input) - 1))
        ELSE ret.val = Str(input)

\* k is a key as parse_env_file stores it: one line, no "=", no outer
\* whitespace, not a comment and without an export prefix
IsPlainKey(k) ==
    /\ k # <<>>
    /\ NoneOf(k, {"=", "\n"})
    /\ NoOuterSpace(k)
    /\ k[1] # "#"
    /\ ~BeginsWithExport(k)

\* the input is the single line k=qvq for the quote character q, with v
\* free of q, and i the index of its first "="
IsQuotedLine(i, q) ==
    LET k == SubSeq(input, 1, i - 1)
        v == SubSeq(input, i + 2, Len(input) - 1)
    IN  /\ IsPlainKey(k)
        /\ input[i] = "="
        /\ Len(input) >= i + 2
        /\ input[i + 1] = q /\ input[Len(input)] = q
        /\ NoneOf(v, {q, "\n"})

\* C11: parsing the single line k="v" (or k='v') with v free of that quote
\* character yields exactly the pair (k, v).
C11_QuoteRoundTrip ==
    ret.op = "parse_env_file" =>
        \A i \in 1..Len(input), q \in Quotes :
            IsQuotedLine(i, q) =>
                efl = OnlyEntry(SubSeq(input, 1, i - 1),
                                SubSeq(input, i + 2, Len(input) - 1))

\* s is n whitespace characters, the word export in any letter case, one
\* whitespace character and a remainder
HasExportPrefix(s, n) ==
    /\ Len(s) >= n + 7
    /\ \A j \in 1..n : IsSpace(s[j])
    /\ \A j \in 1..6 : s[n + j] \in {ExportWord[j], <<"E", "X", "P", "O", "R", "T">>[j]}
    /\ IsSpace(s[n + 7])

\* t is x without its leading and trailing whitespace
IsTrimOf(t, x) ==
    /\ NoOuterSpace(t)
    /\ \E a \in 0..(Len(x) - Len(t)) :
          /\ SubSeq(x, a + 1, a + Len(t)) = t
          /\ \A j \in (1..a) \cup ((a + Len(t) + 1)..Len(x)) : IsSpace(x[j])

\* C12: strip_export removes whitespace, the word export in any letter case
\* and one whitespace character from the front of its argument, and nothing
\* when no whitespace follows the word; parse_env_file stores a retained
\* line K=V under the trimmed remainder of K, and never takes an export
\* prefix off V.
C12_ExportPrefix ==
    /\ ret.op = "strip_export" =>
          /\ \A n \in 0..Len(input) :
                HasExportPrefix(input, n) =>
                    ret.val = Str(SubSeq(input, n + 8, Len(input)))
          /\ (~\E n \in 0..Len(input) : HasExportPrefix(input, n)) =>
                ret.val = Str(input)
    /\ ret.op = "parse_env_file" =>
          \A i \in 1..Len(input) :
              LET K == SubSeq(input, 1, i - 1)
                  V == SubSeq(input, i + 1, Len(input))
              IN  (/\ input[i] = "="
                   /\ NoneOf(K, {"="})
                   /\ NoneOf(input, {"\n"})
                   /\ ~IsIgnoredLine(input)) =>
                      /\ Len(efl) = 1
                      /\ \A n \in 0..Len(K) :
                            HasExportPrefix(K, n) =>
                                IsTrimOf(efl[1].k, SubSeq(K, n + 8, Len(K)))
                      /\ (~\E n \in 0..Len(K) : HasExportPrefix(K, n)) =>
                            IsTrimOf(efl[1].k, K)
                      /\ NoneOf(V, Quotes) => IsTrimOf(efl[1].v.v, V)

C12_Witness ==
    /\ ret.op = "parse_env_file"
    /\ HasExportPrefix(input, 0)
    /\ HasExportPrefix(SubSeq(input, 10, Len(input)), 0)
    /\ efl = OnlyEntry(<<"A">>, <<"e", "x", "p", "o", "r", "t", " ", "A">>)

\* t is a text between a leading quote character and the same character
\* at its end
IsWrapped(t) == Len(t) >= 3 /\ t[1] \in Quotes /\ t[Len(t)] = t[1]

---------------------------------------------------------------------------
(* Properties of the loaders, under SpecLoaders *)

\* C14: EnvFileLoader._load_values and SecretBox.load_env_file do not raise
\* for a missing file: they return False and leave the loaded values as
\* they were; they return True when the file exists, whatever its lines.
C14_MissingFileIsSoft ==
    [][/\ ret'.op = "EnvFileLoader._load_values" =>
            /\ ret'.exc = "none"
            /\ ret'.val = PyBool(file.exists)
            /\ ~file.exists => efl' = efl
       /\ ret'.op = "load_env_file" =>
            /\ ret'.exc = "none"
            /\ ret'.val = PyBool(file.exists)
            /\ ~file.exists => box'.loaded_values = box.loaded_values]_vars

C14_Witness ==
    /\ ret.op = "EnvFileLoader._load_values"
    /\ ~file.exists
    /\ ret.val = PyBool(FALSE)
    /\ efl # EmptyDict

\* the items of a dict, as a set
Items(d) == {d[i] : i \in 1..Len(d)}

\* C15: EnvironLoader._load_values (and run) returns True and leaves the
\* loader's values equal to the environment of the call, exactly its keys
\* with its values; a later change of the environment does not show in them.
C15_ValuesAreSnapshot ==
    [][/\ ret'.op \in {"EnvironLoader._load_values", "EnvironLoader.run"} =>
            /\ ret'.val = PyBool(TRUE)
            /\ Items(envl') = Items(environ)
       /\ ret'.op \in {"environ_setitem", "environ_delitem"} => envl' = envl]_vars

\* the calls that only read their source
ReadingCalls ==
    {"EnvFileLoader._load_values", "EnvironLoader._load_values", "EnvironLoader.run",
     "AWSSecretLoader.run", "AWSParameterStoreLoader.run", "load_env_file"}

PushedOnly(d, before, after, returned) ==
    /\ Items(after) \subseteq Items(before) \cup Items(d)
    /\ Keys(before) \subseteq Keys(after)
    /\ returned => Items(d) \subseteq Items(after)

---------------------------------------------------------------------------
(* Properties of the AWS loaders, under SpecAws *)

LoadValuesCalls == {"AWSSecretLoader._load_values", "AWSParameterStoreLoader._load_values"}

\* the remote call fails: no credentials, or a client error such as access
\* denied or resource not found
RemoteFails ==
    IF awsl.cls = "AWSSecretLoader"
    THEN aws.kind \in {"NoCredentialsError", "ClientError"}
    ELSE \E i \in 1..Len(ssm) : ssm[i].kind # "Parameters"

\* the key a parameter is to be stored under, for the store identifier
ParamKey(name, sstore) ==
    IF \E i \in 1..Len(sstore) : sstore[i] = "/"
    THEN LET last == CHOOSE i \in 0..Len(name) :
                         /\ i > 0 => name[i] = "/"
                         /\ \A j \in (i + 1)..Len(name) : name[j] # "/"
         IN  SubSeq(name, last + 1, Len(name))
    ELSE name

\* the parameters of all pages
AllParams == {ssm[i].params[j] : <<i, j>> \in
                 {p \in (1..Len(ssm)) \X (1..2) : p[2] <= Len(ssm[p[1]].params)}}

\* d holds the payload of the resource
HoldsPayload(d, sstore) ==
    IF awsl.cls = "AWSSecretLoader"
    THEN Items(d) = Items(json_object(aws.members))
    ELSE /\ Keys(d) = {ParamKey(p.name, sstore) : p \in AllParams}
         /\ \A p \in AllParams : \E q \in AllParams :
               /\ ParamKey(q.name, sstore) = ParamKey(p.name, sstore)
               /\ DictGet(d, ParamKey(p.name, sstore)) = Str(q.value)

\* C17: with boto3 present, _load_values of a loader without loaded values
\* returns False and loads nothing when store or region is missing or the
\* remote call fails, and otherwise returns True with the payload loaded.
C17_RemoteSoftFailure ==
    [][(/\ ret'.op \in LoadValuesCalls
        /\ boto3
        /\ awsl.loaded_values = EmptyDict
        /\ awsl.cls = "AWSSecretLoader" => aws.kind \notin {"NotJSON", "InvalidRegionError"}) =>
           IF \/ ~Truthy(awsl'.aws_sstore)
              \/ ~Truthy(awsl'.aws_region)
              \/ RemoteFails
           THEN /\ ret'.exc = "none"
                /\ ret'.val = PyBool(FALSE)
                /\ awsl'.loaded_values = EmptyDict
           ELSE /\ ret'.exc = "none"
                /\ ret'.val = PyBool(TRUE)
                /\ HoldsPayload(awsl'.loaded_values, awsl'.aws_sstore.v)]_vars

RunCalls == {"AWSSecretLoader.run", "AWSParameterStoreLoader.run"}

\* C18: run() of an AWS loader that has store and region returns a boolean
\* and never raises, whatever the credentials and the remote answer are.
C18_RunNeverRaises ==
    [][(/\ ret'.op \in RunCalls
        /\ Truthy(awsl.aws_sstore)
        /\ Truthy(awsl.aws_region)) =>
           ret'.exc = "none" /\ ret'.val.t = "bool"]_vars

\* the first of the positional and the keyword argument that is given
Given(a, k) == IF Truthy(a) THEN a ELSE IF Truthy(k) THEN k ELSE PyNone

\* the variable of the environment, None when unset
Variable(key) == IF HasKey(environ, key) THEN DictGet(environ, key) ELSE PyNone

\* C19: populate_region_store_names sets store and region to the value the
\* caller passed, else to AWS_SSTORE_NAME for the store and to the first
\* non-empty of AWS_REGION_NAME and AWS_REGION for the region, else to None.
C19_ResolveStoreRegion ==
    ret.op = "populate_region_store_names" =>
        LET sstore == Given(ret.args[1], ret.args[3])
            region == Given(ret.args[2], ret.args[4])
        IN  /\ awsl.aws_sstore =
                  IF sstore # PyNone THEN sstore ELSE Variable(AWS_SSTORE_NAME)
            /\ awsl.aws_region =
                  IF region # PyNone THEN region
                  ELSE IF Truthy(Variable(AWS_REGION_NAME)) THEN Variable(AWS_REGION_NAME)
                  ELSE IF Truthy(Variable(AWS_REGION)) THEN Variable(AWS_REGION)
                  ELSE PyNone

---------------------------------------------------------------------------
(* Properties of repeated load() calls, under Spec *)

\* C21: a SecretBox (or LoadEnv) created without auto_load holds no value;
\* a load() that follows a load(), the file and the secret unchanged, leaves
\* loaded_values as the first load() left them; and no step removes a key
\* from loaded_values.
C21_LoadIdempotent ==
    /\ ret.op = "none" => box.loaded_values = EmptyDict
    /\ [][/\ (ret.op = "load" /\ ret'.op = "load") =>
                 box'.loaded_values = box.loaded_values
          /\ Keys(box.loaded_values) \subseteq Keys(box'.loaded_values)]_vars

\* a load() that returned and had started from the environment an earlier
\* push had already filled with the secret's value
C21_Witness ==
    /\ ret.op = "load"
    /\ ret.exc = "none"
    /\ pre = environ
    /\ HasKey(pre, KeyA)
    /\ DictGet(pre, KeyA) = Str(<<"z">>)
    /\ box.loaded_values = environ

\* every value of a dict of loaded values is a str
AllStr(d) == \A i \in 1..Len(d) : d[i].v.t = "str"

\* C22: in every reachable state every value held in SecretBox.loaded_values
\* or in a loader's loaded values is a string, whatever the environment, the
\* file and the JSON payload of the secret are.  (Keys are environment names,
\* file text or JSON object names, which are strings in every state.)
C22_AllValuesAreStrings ==
    /\ AllStr(box.loaded_values)
    /\ AllStr(efl)
    /\ AllStr(envl)
    /\ AllStr(awsl.loaded_values)

---------------------------------------------------------------------------
(* Properties that compare the two parsers, under SpecParse *)

\* C23: for every file text SecretBox.__parse_env_file (the parser of
\* load_env_file) produces the key/value mapping that
\* EnvFileLoader.parse_env_file produces, lines with an export prefix and
\* values with nested quotes included.
C23_SameGrammar ==
    ret.op = "SecretBox.__parse_env_file" => box.loaded_values = efl

---------------------------------------------------------------------------
(* Properties of the AWSLoader super class, under SpecBase *)

ContextActive == awsb.ctx # <<>>

\* C25: with hide_boto_debug true the root logger level is INFO for as long
\* as the disable_debug_logging block is active, so a DEBUG record of a
\* logger without a level of its own is not handled; when the block is left,
\* by return or by an exception of the body, the root level is again what it
\* was on entry; with hide_boto_debug false entering and leaving the block
\* never change the root level.
C25_RootLevelRestored ==
    /\ [](/\ (ContextActive /\ awsb.hide_boto_debug) =>
                 root_level = INFO /\ ~debug_is_enabled(root_level)
          /\ (ContextActive /\ awsb.hide_boto_debug /\ ret.op = "logger.debug") =>
                 ret.val = PyBool(FALSE))
    /\ [][/\ (~ContextActive /\ ContextActive') => awsb'.ctx = <<root_level>>
          /\ (ContextActive /\ ~ContextActive') => root_level' = awsb.ctx[1]
          /\ (~awsb.hide_boto_debug /\ ContextActive # ContextActive') =>
                 root_level' = root_level]_vars

\* the body raised while the root level was forced to INFO, and the level is
\* DEBUG again, as before the block
C25_Witness ==
    /\ ret.op = "disable_debug_logging.__exit__"
    /\ ret.args = <<"raise">>
    /\ ret.exc = "ClientError"
    /\ awsb.hide_boto_debug
    /\ ~ContextActive
    /\ root_level = DEBUG

---------------------------------------------------------------------------
(* Properties of the paged read of the parameter store, under SpecAws *)

\* the number of the first page of the store without a NextToken
LastPage == CHOOSE n \in 1..Len(ssm) :
                ssm[n].next = NoToken /\ \A i \in 1..(n - 1) : ssm[i].next # NoToken

---------------------------------------------------------------------------
(* Properties of load() and the process environment, under Spec *)

\* C27: when load() of SecretBox or LoadEnv has returned, every key of
\* loaded_values is an environment variable with the same value, whatever
\* the variable held before, and every environment variable is a key of
\* loaded_values.
C27_EnvironEqualsLoaded ==
    (ret.op = "load" /\ ret.exc = "none") =>
        /\ \A k \in Keys(box.loaded_values) :
               HasKey(environ, k) /\ DictGet(environ, k) = DictGet(box.loaded_values, k)
        /\ Keys(environ) \subseteq Keys(box.loaded_values)

\* load() returned after replacing the value the environment had for A and
\* adding a variable
C27_Witness ==
    /\ ret.op = "load"
    /\ ret.exc = "none"
    /\ HasKey(pre, KeyA)
    /\ DictGet(pre, KeyA) # DictGet(environ, KeyA)
    /\ Keys(pre) # Keys(environ)
    /\ DictGet(environ, KeyA) = DictGet(box.loaded_values, KeyA)

---------------------------------------------------------------------------
(* Properties of failed loads, under SpecAws *)

---------------------------------------------------------------------------
(* Properties of the keys EnvFileLoader stores, under SpecParse *)

\* C29: every key EnvFileLoader.parse_env_file stores is a non-empty string
\* without leading or trailing whitespace, whatever the text is, lines such
\* as "=value" or "export =value" included.
C29_KeysAreEnvironNames ==
    \A i \in 1..Len(efl) : efl[i].k # <<>> /\ NoOuterSpace(efl[i].k)

---------------------------------------------------------------------------
(* Properties of the debug log of loaded values, under SpecParse *)

\* C30: the suffix value[-(n // 4):] that run() and push_to_environment
\* write to the debug log has at most floor(n / 4) characters, for a value
\* of any length n, lengths 0 to 3 included, so the log never shows the
\* whole value.
C30_LogShowsAtMostQuarter ==
    ret.op = "log_suffix" => Len(ret.val.v) <= Len(input) \div 4

===========================================================================
